---- MODULE Spec2Model ----
(***************************************************************************)
(* Model of src/remove_java_comments.py: the JavaCommentRemover scanner.   *)
(*                                                                         *)
(* A character is a one-character string; a Python str is a sequence of    *)
(* characters.  The scanner's `result` is a Python list of str: most       *)
(* elements are one character, but the text-block delimiters are appended  *)
(* as one element of three (line 121) or two (line 61) characters, so      *)
(* `result` is modelled as a sequence of chunks and ''.join(result) as     *)
(* Join.  The cursor i is 0-based as in the source.                        *)
(***************************************************************************)
EXTENDS Integers, Sequences, FiniteSets, TLC

\* ---------------------------------------------------------------- bounds
\* Inputs are concatenations of at most this many tokens (see Tokens*).
MaxToks == 3
MaxToksLit == 5
MaxToksTB == 5
MaxToksCmt == 5
MaxToksWin == 6
MaxToksCR == 5
MaxToksFile == 2
MaxFiles == 2

\* ------------------------------------------------------------ characters
QUOTE == "\""
APOS == "'"
BSLASH == "\\"
SLASH == "/"
STAR == "*"
NL == "\n"
SP == " "
CR == "\r"

\* Python None (string_delimiter when no string is open).
None == "None"

\* str.isspace() for one character (ASCII white space).
IsSpace(c) == c \in {" ", "\t", "\n", "\r", "\f"}

\* str.lower() for one character, on the letters the URL schemes use.
Lower(c) ==
  CASE c = "H" -> "h" [] c = "T" -> "t" [] c = "P" -> "p" [] c = "S" -> "s"
    [] c = "F" -> "f" [] c = "I" -> "i" [] c = "L" -> "l" [] c = "E" -> "e"
    [] OTHER -> c

LowerStr(str) == [k \in 1..Len(str) |-> Lower(str[k])]

\* ''.join(chunks)
RECURSIVE Join(_)
Join(chunks) ==
  IF chunks = <<>> THEN <<>> ELSE Head(chunks) \o Join(Tail(chunks))

\* chunks[-n:]
LastN(chunks, n) ==
  IF Len(chunks) >= n THEN SubSeq(chunks, Len(chunks) - n + 1, Len(chunks))
  ELSE chunks

\* sub in str
Contains(sub, str) ==
  \E k \in 0..(Len(str) - Len(sub)) : SubSeq(str, k + 1, k + Len(sub)) = sub

\* str[a:b] with 0 <= a <= b (a Python slice never raises; it is clipped).
Slice(str, a, b) ==
  SubSeq(str, a + 1, IF b < Len(str) THEN b ELSE Len(str))

\* Number of occurrences of character c in str.
RECURSIVE Count(_, _)
Count(c, str) ==
  IF str = <<>> THEN 0
  ELSE (IF Head(str) = c THEN 1 ELSE 0) + Count(c, Tail(str))

\* ---------------------------------------------------------------- state
VARIABLES
  in_string, in_char, in_single_line_comment, in_multi_line_comment,
  string_delimiter, in_text_block, text_block_quotes,   \* instance fields
  java_content, i, result,                             \* remove_comments frame
  pc,                                                  \* "idle" | "loop"
  entry,                                               \* mode at entry of the call
  comment_seen,                                        \* a comment mode was active in this call
  pd,                                                  \* process_directory: "none" | "loop" | "done"
  backup, in_place,                                    \* its arguments, handed on to process_file
  linesep,                                             \* os.linesep of the platform it runs on
  java_files,                                          \* len(java_files)
  idx,                                                 \* how many of them the for loop has taken
  success_count, error_count,
  pf,                                                  \* process_file: "none" | "read" | "reset" | "scan"
                                                       \*   | "backup" | "write" | "ok" | "err"
  disk,                                                \* the files of the current file_path
  original_content, cleaned_content,                   \* locals of process_file
  stale                                                \* process_file was entered with fields not reset

vars ==
  <<in_string, in_char, in_single_line_comment, in_multi_line_comment,
    string_delimiter, in_text_block, text_block_quotes,
    java_content, i, result, pc, entry, comment_seen,
    pd, backup, in_place, linesep, java_files, idx, success_count, error_count,
    pf, disk, original_content, cleaned_content, stale>>

\* The state of process_directory and of process_file.
files ==
  <<pd, backup, in_place, linesep, java_files, idx, success_count, error_count,
    pf, disk, original_content, cleaned_content, stale>>

fields ==
  <<in_string, in_char, in_single_line_comment, in_multi_line_comment,
    string_delimiter, in_text_block, text_block_quotes>>

\* The scan state one loop iteration reads and writes.
Frame ==
  [java_content |-> java_content, i |-> i, result |-> result,
   in_string |-> in_string, in_char |-> in_char,
   in_single_line_comment |-> in_single_line_comment,
   in_multi_line_comment |-> in_multi_line_comment,
   string_delimiter |-> string_delimiter,
   in_text_block |-> in_text_block]

\* The frame of a scan of x by a freshly constructed (or reset) instance.
ResetFrame(x) ==
  [java_content |-> x, i |-> 0, result |-> <<>>,
   in_string |-> FALSE, in_char |-> FALSE,
   in_single_line_comment |-> FALSE,
   in_multi_line_comment |-> FALSE,
   string_delimiter |-> None,
   in_text_block |-> FALSE]

length(s) == Len(s.java_content)
char(s) == s.java_content[s.i + 1]
At(s, k) == s.java_content[k + 1]

\* The lexical mode the flags select, in the order the loop body tests them.
ModeOf(s) ==
  IF s.in_text_block THEN "TextBlock"
  ELSE IF s.in_string THEN "StringLiteral"
  ELSE IF s.in_char THEN "CharLiteral"
  ELSE IF s.in_multi_line_comment THEN "BlockComment"
  ELSE IF s.in_single_line_comment THEN "LineComment"
  ELSE "Code"

\* ------------------------------------------------------ the loop body
\* result.append(char); i += 1
Copy(s) == [s EXCEPT !.result = Append(@, <<char(s)>>), !.i = @ + 1]

\* i += 1 (the character is dropped)
Skip(s) == [s EXCEPT !.i = @ + 1]

\* line 45
IsEscape(s) ==
  (s.in_string \/ s.in_char \/ s.in_text_block) /\ char(s) = BSLASH

\* lines 46-54
EscapeStepNoPair(s) ==
  [s EXCEPT !.result = Append(@, <<char(s)>>), !.i = @ + 1]

EscapeStepOvershoot(s) ==
  [s EXCEPT !.result = Append(@, <<char(s)>>), !.i = @ + 2]

EscapeStep(s) ==
  IF s.i + 1 < length(s)
  THEN [s EXCEPT !.result = Append(Append(@, <<char(s)>>), <<At(s, s.i + 1)>>),
                 !.i = @ + 2]
  ELSE [s EXCEPT !.result = Append(@, <<char(s)>>), !.i = @ + 1]

\* line 59
IsTextBlockEnd(s) ==
  /\ char(s) = QUOTE
  /\ s.i + 2 < length(s)
  /\ Slice(s.java_content, s.i + 1, s.i + 3) = <<QUOTE, QUOTE>>

\* lines 58-66
TextBlockStepOneQuote(s) ==
  IF IsTextBlockEnd(s)
  THEN [s EXCEPT !.result = Append(@, <<char(s)>>),
                 !.in_text_block = FALSE, !.i = @ + 3]
  ELSE [s EXCEPT !.result = Append(@, <<char(s)>>), !.i = @ + 1]

TextBlockStepExtraQuotes(s) ==
  IF IsTextBlockEnd(s)
  THEN [s EXCEPT !.result = Append(Append(@, <<char(s)>>), <<QUOTE, QUOTE, QUOTE>>),
                 !.in_text_block = FALSE, !.i = @ + 3]
  ELSE [s EXCEPT !.result = Append(@, <<char(s)>>), !.i = @ + 1]

TextBlockStep(s) ==
  IF IsTextBlockEnd(s)
  THEN [s EXCEPT !.result = Append(Append(@, <<char(s)>>), <<QUOTE, QUOTE>>),
                 !.in_text_block = FALSE, !.i = @ + 3]
  ELSE [s EXCEPT !.result = Append(@, <<char(s)>>), !.i = @ + 1]

\* line 69
IsStringEnd(s) == s.in_string /\ char(s) = s.string_delimiter

\* lines 70-74
StringEndKeepsDelimiter(s) ==
  [s EXCEPT !.in_string = FALSE,
            !.result = Append(@, <<char(s)>>), !.i = @ + 1]

StringEnd(s) ==
  [s EXCEPT !.in_string = FALSE, !.string_delimiter = None,
            !.result = Append(@, <<char(s)>>), !.i = @ + 1]

\* line 77
IsCharEnd(s) == s.in_char /\ char(s) = APOS

\* lines 78-81
CharEnd(s) ==
  [s EXCEPT !.in_char = FALSE, !.result = Append(@, <<char(s)>>), !.i = @ + 1]

\* line 84
InLiteralCharOnly(s) == s.in_char

InLiteralStringOnly(s) == s.in_string

InLiteral(s) == s.in_string \/ s.in_char

\* line 90
IsSingleLineEndAtCR(s) == s.in_single_line_comment /\ char(s) \in {NL, CR}

IsSingleLineEnd(s) == s.in_single_line_comment /\ char(s) = NL

\* lines 91-94
SingleLineEndDropsNewline(s) ==
  [s EXCEPT !.in_single_line_comment = FALSE, !.i = @ + 1]

SingleLineEnd(s) ==
  [s EXCEPT !.in_single_line_comment = FALSE,
            !.result = Append(@, <<char(s)>>), !.i = @ + 1]

\* line 98
IsMultiLineEnd(s) ==
  char(s) = STAR /\ s.i + 1 < length(s) /\ At(s, s.i + 1) = SLASH

\* lines 97-108
MultiLineStepDropsNewline(s) ==
  IF IsMultiLineEnd(s)
  THEN [s EXCEPT !.in_multi_line_comment = FALSE, !.i = @ + 2]
  ELSE [s EXCEPT !.i = @ + 1]

MultiLineStepSkipsOpener(s) ==
  IF IsMultiLineEnd(s)
  THEN [s EXCEPT !.in_multi_line_comment = FALSE, !.i = @ + 2]
  ELSE IF char(s) = SLASH /\ s.i + 1 < length(s) /\ At(s, s.i + 1) = STAR
       THEN [s EXCEPT !.i = @ + 2]
  ELSE IF char(s) = NL
       THEN [s EXCEPT !.result = Append(@, <<char(s)>>), !.i = @ + 1]
       ELSE [s EXCEPT !.i = @ + 1]

MultiLineStep(s) ==
  IF IsMultiLineEnd(s)
  THEN [s EXCEPT !.in_multi_line_comment = FALSE, !.i = @ + 2]
  ELSE IF char(s) = NL
       THEN [s EXCEPT !.result = Append(@, <<char(s)>>), !.i = @ + 1]
       ELSE [s EXCEPT !.i = @ + 1]

\* lines 116-119
IsTextBlockStartOrEnd(s) ==
  /\ char(s) = QUOTE
  /\ s.i + 2 < length(s)
  /\ Slice(s.java_content, s.i, s.i + 3) = <<QUOTE, QUOTE, QUOTE>>
  /\ \/ s.i + 3 = length(s)
     \/ IsSpace(At(s, s.i + 3))

IsTextBlockStart(s) ==
  /\ char(s) = QUOTE
  /\ s.i + 2 < length(s)
  /\ Slice(s.java_content, s.i, s.i + 3) = <<QUOTE, QUOTE, QUOTE>>
  /\ s.i + 3 < length(s)
  /\ (IsSpace(At(s, s.i + 3)) \/ At(s, s.i + 3) = NL)

\* lines 120-123
TextBlockStartOneQuote(s) ==
  [s EXCEPT !.in_text_block = TRUE,
            !.result = Append(@, <<QUOTE>>), !.i = @ + 3]

TextBlockStart(s) ==
  [s EXCEPT !.in_text_block = TRUE,
            !.result = Append(@, <<QUOTE, QUOTE, QUOTE>>), !.i = @ + 3]

\* line 134: the look-back window, in elements of result
ContextWindow == 10

\* line 135
url_indicators ==
  { <<"h", "t", "t", "p", ":">>, <<"h", "t", "t", "p", "s", ":">>,
    <<"f", "t", "p", ":">>, <<"f", "i", "l", "e", ":">> }

\* line 134
preceding_context(s) == LowerStr(Join(LastN(s.result, ContextWindow)))

\* line 137
is_likely_url(s) ==
  \E indicator \in url_indicators : Contains(indicator, preceding_context(s))

\* lines 126-131, 139
IsSingleLineStart(s) ==
  /\ char(s) = SLASH
  /\ s.i + 1 < length(s)
  /\ At(s, s.i + 1) = SLASH
  /\ ~is_likely_url(s)

\* lines 140-142
SingleLineStart(s) ==
  [s EXCEPT !.in_single_line_comment = TRUE, !.i = @ + 2]

\* lines 126-128, 145
IsMultiLineStart(s) ==
  /\ char(s) = SLASH
  /\ s.i + 1 < length(s)
  /\ At(s, s.i + 1) # SLASH
  /\ At(s, s.i + 1) = STAR

\* lines 146-148
MultiLineStartByOne(s) ==
  [s EXCEPT !.in_multi_line_comment = TRUE, !.i = @ + 1]

MultiLineStart(s) ==
  [s EXCEPT !.in_multi_line_comment = TRUE, !.i = @ + 2]

\* lines 151-156
StringStart(s) ==
  [s EXCEPT !.in_string = TRUE, !.string_delimiter = char(s),
            !.result = Append(@, <<char(s)>>), !.i = @ + 1]

\* lines 159-163
CharStart(s) ==
  [s EXCEPT !.in_char = TRUE, !.result = Append(@, <<char(s)>>), !.i = @ + 1]

\* lines 42-167: one iteration of the while loop, for s.i < length(s)
Body(s) ==
  IF IsEscape(s) THEN EscapeStep(s)
  ELSE IF s.in_text_block THEN TextBlockStep(s)
  ELSE IF IsStringEnd(s) THEN StringEnd(s)
  ELSE IF IsCharEnd(s) THEN CharEnd(s)
  ELSE IF InLiteral(s) THEN Copy(s)
  ELSE IF IsSingleLineEnd(s) THEN SingleLineEnd(s)
  ELSE IF s.in_multi_line_comment THEN MultiLineStep(s)
  ELSE IF s.in_single_line_comment THEN Skip(s)
  ELSE IF IsTextBlockStart(s) THEN TextBlockStart(s)
  ELSE IF IsSingleLineStart(s) THEN SingleLineStart(s)
  ELSE IF IsMultiLineStart(s) THEN MultiLineStart(s)
  ELSE IF char(s) = QUOTE THEN StringStart(s)
  ELSE IF char(s) = APOS THEN CharStart(s)
  ELSE Copy(s)

\* lines 42, 48, 98, 119, 128: the positions of java_content one iteration
\* reads by subscript (slices are clipped and read nothing out of range)
IndexReads(s) ==
  {s.i} \cup
  IF IsEscape(s) THEN (IF s.i + 1 < length(s) THEN {s.i + 1} ELSE {})
  ELSE IF s.in_text_block \/ IsStringEnd(s) \/ IsCharEnd(s) \/ InLiteral(s)
          \/ IsSingleLineEnd(s) THEN {}
  ELSE IF s.in_multi_line_comment
       THEN (IF char(s) = STAR /\ s.i + 1 < length(s) THEN {s.i + 1} ELSE {})
  ELSE IF s.in_single_line_comment THEN {}
  ELSE IF IsTextBlockStart(s) THEN {s.i + 3}
  ELSE (IF /\ char(s) = QUOTE
           /\ s.i + 2 < length(s)
           /\ Slice(s.java_content, s.i, s.i + 3) = <<QUOTE, QUOTE, QUOTE>>
           /\ s.i + 3 < length(s)
        THEN {s.i + 3} ELSE {})
       \cup (IF char(s) = SLASH /\ s.i + 1 < length(s) THEN {s.i + 1} ELSE {})

\* lines 41-169: the whole loop from frame s, and the returned string
RECURSIVE Run(_)
Run(s) == IF s.i < length(s) THEN Run(Body(s)) ELSE s

remove_comments(s) == Join(Run(s).result)

\* --------------------------------------------------------------- inputs
TQ == <<QUOTE, QUOTE, QUOTE>>
FTP == <<"f", "t", "p", ":">>
FTPU == <<"F", "T", "P", ":">>

Tokens ==
  { <<SLASH>>, <<STAR>>, <<QUOTE>>, <<APOS>>, <<BSLASH>>, <<NL>>, <<SP>>,
    TQ, FTP }
TokensLit == { <<SLASH>>, <<STAR>>, <<QUOTE>>, <<APOS>>, <<BSLASH>> }
TokensTB == { <<SLASH>>, <<STAR>>, <<QUOTE>>, <<BSLASH>>, <<SP>>, TQ }
TokensCmt == { <<SLASH>>, <<STAR>>, <<NL>>, <<SP>>, <<QUOTE>>, FTP }
TokensWin == { <<SLASH>>, <<SP>>, TQ, FTP, FTPU }
LINE == <<SLASH, SLASH>>
BLOCK == <<SLASH, STAR>>
TEXT == TQ \o <<NL>>
TokensFile == { LINE, BLOCK, <<QUOTE>>, <<APOS>>, TEXT, <<CR>>, <<NL>> }
TokensCR == { <<SLASH>>, <<STAR>>, <<NL>>, <<CR>>, <<QUOTE>>, <<SP>> }

SeqsUpTo(S, n) == UNION { [1..k -> S] : k \in 0..n }

InputsOf(S, n) == { Join(ts) : ts \in SeqsUpTo(S, n) }

Inputs == InputsOf(Tokens, MaxToks)
InputsLit == InputsOf(TokensLit, MaxToksLit)
InputsTB == InputsOf(TokensTB, MaxToksTB)
InputsCmt == InputsOf(TokensCmt, MaxToksCmt)
InputsWin == InputsOf(TokensWin, MaxToksWin)
InputsCR == InputsOf(TokensCR, MaxToksCR)
FileContents == InputsOf(TokensFile, MaxToksFile)

\* ------------------------------------------------------------ file I/O
\* A path that names no file.
Absent == <<"absent">>

\* The files process_file touches for one file_path: the file itself,
\* file_path + '.backup', and <stem>_no_comments<suffix>.
NoFiles == [orig |-> Absent, backup |-> Absent, out |-> Absent]

\* lines 185-186: open(file_path, 'r').read() in text mode with universal
\* newlines: "\r\n" and a lone "\r" are read as "\n"
RECURSIVE ReadText(_)
ReadText(bytes) ==
  IF bytes = <<>> THEN <<>>
  ELSE IF Head(bytes) = CR
       THEN IF Len(bytes) >= 2 /\ bytes[2] = NL
            THEN <<NL>> \o ReadText(Tail(Tail(bytes)))
            ELSE <<NL>> \o ReadText(Tail(bytes))
       ELSE <<Head(bytes)>> \o ReadText(Tail(bytes))

\* lines 204, 216: f.write(text) in text mode: "\n" is written as os.linesep
RECURSIVE WriteText(_, _)
WriteText(text, sep) ==
  IF text = <<>> THEN <<>>
  ELSE (IF Head(text) = NL THEN sep ELSE <<Head(text)>>)
         \o WriteText(Tail(text), sep)

\* What a file can hold after open(path, 'w') and a write that failed: what
\* it held before (open failed), or some part of the data (the file was
\* truncated and the write or the close failed).
AfterFailedWrite(old, data) ==
  {old} \cup { SubSeq(data, 1, k) : k \in 0..Len(data) }

\* -------------------------------------------------------------- actions
\* lines 16-24: JavaCommentRemover()
Init ==
  /\ in_string = FALSE
  /\ in_char = FALSE
  /\ in_single_line_comment = FALSE
  /\ in_multi_line_comment = FALSE
  /\ string_delimiter = None
  /\ in_text_block = FALSE
  /\ text_block_quotes = 0
  /\ java_content = <<>>
  /\ i = 0
  /\ result = <<>>
  /\ pc = "idle"
  /\ entry = "Code"
  /\ comment_seen = FALSE
  /\ pd = "none"
  /\ backup = FALSE
  /\ in_place = FALSE
  /\ linesep = <<NL>>
  /\ java_files = 0
  /\ idx = 0
  /\ success_count = 0
  /\ error_count = 0
  /\ pf = "none"
  /\ disk = NoFiles
  /\ original_content = <<>>
  /\ cleaned_content = <<>>
  /\ stale = FALSE

\* lines 26-39: remove_comments(x) is entered; the fields are left as they are
Call(x) ==
  /\ pc = "idle"
  /\ java_content' = x
  /\ i' = 0
  /\ result' = <<>>
  /\ pc' = "loop"
  /\ entry' = ModeOf(Frame)
  /\ comment_seen' = (in_single_line_comment \/ in_multi_line_comment)
  /\ UNCHANGED fields
  /\ UNCHANGED files

\* lines 41-167: one iteration of the while loop
Iterate ==
  /\ pc = "loop"
  /\ i < Len(java_content)
  /\ LET t == Body(Frame) IN
       /\ i' = t.i
       /\ result' = t.result
       /\ in_string' = t.in_string
       /\ in_char' = t.in_char
       /\ in_single_line_comment' = t.in_single_line_comment
       /\ in_multi_line_comment' = t.in_multi_line_comment
       /\ string_delimiter' = t.string_delimiter
       /\ in_text_block' = t.in_text_block
       /\ comment_seen' = (comment_seen \/ t.in_single_line_comment
                                        \/ t.in_multi_line_comment)
  /\ UNCHANGED <<text_block_quotes, java_content, pc>>
  /\ entry' = entry
  /\ UNCHANGED files

\* lines 41, 169: the loop condition fails and ''.join(result) is returned;
\* the frame is gone, the fields stay as the scan left them
Return ==
  /\ pc = "loop"
  /\ ~(i < Len(java_content))
  /\ pc' = "idle"
  /\ java_content' = <<>>
  /\ i' = 0
  /\ result' = <<>>
  /\ entry' = "Code"
  /\ comment_seen' = FALSE
  /\ UNCHANGED fields
  /\ UNCHANGED files

\* Was the instance just constructed, or left by its scans as if it were?
IsReset == ModeOf(Frame) = "Code" /\ string_delimiter = None

\* One instance used for scan after scan of short inputs.
CallAny == pc = "idle" /\ \E x \in Inputs : Call(x)
Next == CallAny \/ Iterate \/ Return
Spec == Init /\ [][Next]_vars

\* Scans by an instance in the reset state: string and character literals.
CallLit == pc = "idle" /\ IsReset /\ \E x \in InputsLit : Call(x)
NextLit == CallLit \/ Iterate \/ Return
SpecLit == Init /\ [][NextLit]_vars

\* Scans by an instance in the reset state: text blocks.
CallTB == pc = "idle" /\ IsReset /\ \E x \in InputsTB : Call(x)
NextTB == CallTB \/ Iterate \/ Return
SpecTB == Init /\ [][NextTB]_vars

\* Scans by an instance in the reset state: comments.
CallCmt == pc = "idle" /\ IsReset /\ \E x \in InputsCmt : Call(x)
NextCmt == CallCmt \/ Iterate \/ Return
SpecCmt == Init /\ [][NextCmt]_vars

\* Scans by an instance in the reset state: URL schemes and text-block
\* delimiters in the look-back window.
CallWin == pc = "idle" /\ IsReset /\ \E x \in InputsWin : Call(x)
NextWin == CallWin \/ Iterate \/ Return
SpecWin == Init /\ [][NextWin]_vars

\* Scans by an instance in the reset state: carriage returns.
CallCR == pc = "idle" /\ IsReset /\ \E x \in InputsCR : Call(x)
NextCR == CallCR \/ Iterate \/ Return
SpecCR == Init /\ [][NextCR]_vars

\* ------------------------------------- process_file, process_directory
\* The file the cleaned content goes to (lines 208-213).
Target == IF in_place THEN disk.orig ELSE disk.out

\* lines 235-237 and 245-247: the directory does not exist or holds no
\* .java file; process_directory returns at once
PD_CallEmpty ==
  /\ pd = "none"
  /\ pc = "idle"
  /\ pd' = "done"
  /\ UNCHANGED <<backup, in_place, linesep, java_files, idx,
                 success_count, error_count>>
  /\ UNCHANGED <<pf, disk, original_content, cleaned_content, stale>>
  /\ UNCHANGED <<fields, java_content, i, result, pc, entry, comment_seen>>

\* lines 223-252: process_directory finds java_files and starts counting
PD_Call ==
  /\ pd = "none"
  /\ pc = "idle"
  /\ \E n \in 1..MaxFiles, b \in BOOLEAN, ip \in BOOLEAN,
        sep \in {<<NL>>, <<CR, NL>>} :
       /\ java_files' = n
       /\ backup' = b
       /\ in_place' = ip
       /\ linesep' = sep
  /\ pd' = "loop"
  /\ idx' = 0
  /\ success_count' = 0
  /\ error_count' = 0
  /\ UNCHANGED <<pf, disk, original_content, cleaned_content, stale>>
  /\ UNCHANGED <<fields, java_content, i, result, pc, entry, comment_seen>>

\* lines 254-255, 171-183: the for loop takes the next file and calls
\* process_file on it
PD_Next ==
  /\ pd = "loop"
  /\ pf = "none"
  /\ idx < java_files
  /\ \E c \in FileContents :
       disk' = [orig |-> c, backup |-> Absent, out |-> Absent]
  /\ idx' = idx + 1
  /\ pf' = "read"
  /\ stale' = ~IsReset
  /\ UNCHANGED <<pd, backup, in_place, linesep, java_files,
                 success_count, error_count>>
  /\ UNCHANGED <<original_content, cleaned_content>>
  /\ UNCHANGED <<fields, java_content, i, result, pc, entry, comment_seen>>

\* lines 185-186: the file is read, or open/read/decoding raises
PF_Read ==
  /\ pf = "read"
  /\ \/ /\ original_content' = ReadText(disk.orig)
        /\ pf' = "reset"
     \/ /\ original_content' = original_content
        /\ pf' = "err"
  /\ UNCHANGED <<pd, backup, in_place, linesep, java_files, idx,
                 success_count, error_count>>
  /\ UNCHANGED <<disk, cleaned_content, stale>>
  /\ UNCHANGED <<fields, java_content, i, result, pc, entry, comment_seen>>

PF_NoReset ==
  /\ pf = "reset"
  /\ java_content' = original_content
  /\ i' = 0
  /\ result' = <<>>
  /\ pc' = "loop"
  /\ entry' = ModeOf(Frame)
  /\ comment_seen' = (in_single_line_comment \/ in_multi_line_comment)
  /\ pf' = "scan"
  /\ UNCHANGED fields
  /\ UNCHANGED <<pd, backup, in_place, linesep, java_files, idx,
                 success_count, error_count>>
  /\ UNCHANGED <<disk, original_content, cleaned_content, stale>>

\* lines 188-198: the fields are reset and remove_comments(original_content)
\* is entered
PF_Reset ==
  /\ pf = "reset"
  /\ in_string' = FALSE
  /\ in_char' = FALSE
  /\ in_single_line_comment' = FALSE
  /\ in_multi_line_comment' = FALSE
  /\ string_delimiter' = None
  /\ in_text_block' = FALSE
  /\ text_block_quotes' = 0
  /\ java_content' = original_content
  /\ i' = 0
  /\ result' = <<>>
  /\ pc' = "loop"
  /\ entry' = "Code"
  /\ comment_seen' = FALSE
  /\ pf' = "scan"
  /\ UNCHANGED <<pd, backup, in_place, linesep, java_files, idx,
                 success_count, error_count>>
  /\ UNCHANGED <<disk, original_content, cleaned_content, stale>>

\* lines 169, 198-201: remove_comments returns ''.join(result) into
\* cleaned_content
PF_Cleaned ==
  /\ pf = "scan"
  /\ pc = "loop"
  /\ ~(i < Len(java_content))
  /\ cleaned_content' = Join(result)
  /\ pc' = "idle"
  /\ java_content' = <<>>
  /\ i' = 0
  /\ result' = <<>>
  /\ entry' = "Code"
  /\ comment_seen' = FALSE
  /\ pf' = IF backup THEN "backup" ELSE "write"
  /\ UNCHANGED fields
  /\ UNCHANGED <<pd, backup, in_place, linesep, java_files, idx,
                 success_count, error_count>>
  /\ UNCHANGED <<disk, original_content, stale>>

PF_BackupFailureIgnored ==
  /\ pf = "backup"
  /\ \E b \in AfterFailedWrite(disk.backup,
                               WriteText(original_content, linesep)) :
       disk' = [disk EXCEPT !.backup = b]
  /\ pf' = "write"
  /\ UNCHANGED <<pd, backup, in_place, linesep, java_files, idx,
                 success_count, error_count>>
  /\ UNCHANGED <<original_content, cleaned_content, stale>>
  /\ UNCHANGED <<fields, java_content, i, result, pc, entry, comment_seen>>

\* lines 201-205: original_content is written to file_path + '.backup', or
\* the open, the write or the close raises
PF_Backup ==
  /\ pf = "backup"
  /\ \/ /\ disk' = [disk EXCEPT
                      !.backup = WriteText(original_content, linesep)]
        /\ pf' = "write"
     \/ /\ \E b \in AfterFailedWrite(disk.backup,
                                     WriteText(original_content, linesep)) :
             disk' = [disk EXCEPT !.backup = b]
        /\ pf' = "err"
  /\ UNCHANGED <<pd, backup, in_place, linesep, java_files, idx,
                 success_count, error_count>>
  /\ UNCHANGED <<original_content, cleaned_content, stale>>
  /\ UNCHANGED <<fields, java_content, i, result, pc, entry, comment_seen>>

\* lines 208-216: cleaned_content is written to the output path, or the
\* open, the write or the close raises
PF_Write ==
  /\ pf = "write"
  /\ \/ /\ disk' = IF in_place
                   THEN [disk EXCEPT
                           !.orig = WriteText(cleaned_content, linesep)]
                   ELSE [disk EXCEPT
                           !.out = WriteText(cleaned_content, linesep)]
        /\ pf' = "ok"
     \/ /\ \E b \in AfterFailedWrite(Target,
                                     WriteText(cleaned_content, linesep)) :
             disk' = IF in_place
                     THEN [disk EXCEPT !.orig = b]
                     ELSE [disk EXCEPT !.out = b]
        /\ pf' = "err"
  /\ UNCHANGED <<pd, backup, in_place, linesep, java_files, idx,
                 success_count, error_count>>
  /\ UNCHANGED <<original_content, cleaned_content, stale>>
  /\ UNCHANGED <<fields, java_content, i, result, pc, entry, comment_seen>>

PD_CountAbortsOnError ==
  /\ pd = "loop"
  /\ pf \in {"ok", "err"}
  /\ IF pf = "ok"
     THEN /\ success_count' = success_count + 1
          /\ UNCHANGED <<error_count, pd>>
     ELSE /\ error_count' = error_count + 1
          /\ pd' = "done"
          /\ UNCHANGED success_count
  /\ pf' = "none"
  /\ disk' = NoFiles
  /\ original_content' = <<>>
  /\ cleaned_content' = <<>>
  /\ stale' = FALSE
  /\ UNCHANGED <<backup, in_place, linesep, java_files, idx>>
  /\ UNCHANGED <<fields, java_content, i, result, pc, entry, comment_seen>>

\* lines 218-221, 255-261: process_file returns (True, ...) or, from its
\* except clause, (False, ...); the loop counts the outcome
PD_Count ==
  /\ pd = "loop"
  /\ pf \in {"ok", "err"}
  /\ IF pf = "ok"
     THEN /\ success_count' = success_count + 1
          /\ UNCHANGED error_count
     ELSE /\ error_count' = error_count + 1
          /\ UNCHANGED success_count
  /\ pf' = "none"
  /\ disk' = NoFiles
  /\ original_content' = <<>>
  /\ cleaned_content' = <<>>
  /\ stale' = FALSE
  /\ UNCHANGED <<pd, backup, in_place, linesep, java_files, idx>>
  /\ UNCHANGED <<fields, java_content, i, result, pc, entry, comment_seen>>

\* lines 254, 263-265: the for loop is exhausted; the counts are printed
PD_Done ==
  /\ pd = "loop"
  /\ pf = "none"
  /\ ~(idx < java_files)
  /\ pd' = "done"
  /\ UNCHANGED <<backup, in_place, linesep, java_files, idx,
                 success_count, error_count>>
  /\ UNCHANGED <<pf, disk, original_content, cleaned_content, stale>>
  /\ UNCHANGED <<fields, java_content, i, result, pc, entry, comment_seen>>

\* lines 237, 247, 265: process_directory returns; its locals are gone, the
\* fields stay as the last scan left them
PD_Return ==
  /\ pd = "done"
  /\ pd' = "none"
  /\ backup' = FALSE
  /\ in_place' = FALSE
  /\ linesep' = <<NL>>
  /\ java_files' = 0
  /\ idx' = 0
  /\ success_count' = 0
  /\ error_count' = 0
  /\ UNCHANGED <<pf, disk, original_content, cleaned_content, stale>>
  /\ UNCHANGED <<fields, java_content, i, result, pc, entry, comment_seen>>

\* One instance used for directory after directory of short files.
NextFiles ==
  \/ PD_CallEmpty
  \/ PD_Call
  \/ PD_Next
  \/ PF_Read
  \/ PF_Reset
  \/ Iterate
  \/ PF_Cleaned
  \/ PF_Backup
  \/ PF_Write
  \/ PD_Count
  \/ PD_Done
  \/ PD_Return
SpecFiles == Init /\ [][NextFiles]_vars

\* ------------------------------------------------------- shared notions
Mode == ModeOf(Frame)
Looping == pc = "loop" /\ i < Len(java_content)
Finished == pc = "loop" /\ ~(i < Len(java_content))
Output == Join(result)
\* java_content[a:b] for 0 <= a <= b <= len
Consumed(a, b) == SubSeq(java_content, a + 1, b)

Literal == {"StringLiteral", "CharLiteral", "TextBlock"}
LastOf(str) == str[Len(str)]

\* ---------------------------------------------------------------- claims

\* C1: whatever the mode at entry, at every point of a scan the output
\* holds as many newlines as the consumed part of the input, so the
\* returned string has as many newlines as the whole input.
C1_NewlinesPreserved ==
  pc = "loop" => Count(NL, Output) = Count(NL, Consumed(0, i))

\* A scan entered inside a block comment has finished; its input had a
\* newline and lost other characters.
C1_Witness ==
  /\ Finished
  /\ entry = "BlockComment"
  /\ Count(NL, java_content) >= 1
  /\ Len(Output) < Len(java_content)

\* C2: at the start of every remove_comments call the mode is Code and the
\* string delimiter is none, so the output is that of a reset instance.
C2_EntryIsReset ==
  pc = "loop" =>
    /\ (i = 0 => Mode = "Code" /\ string_delimiter = None)
    /\ (Finished => Output = remove_comments(ResetFrame(java_content)))

\* C3: every iteration advances the cursor by 1, 2 or 3 and never past the
\* end, reads no position outside the input, and the loop is left with the
\* cursor equal to the input length.
C3_CursorAdvances ==
  [][ /\ (Looping =>
            /\ pc' = "loop"
            /\ (i' - i) \in 1..3
            /\ i' <= Len(java_content)
            /\ IndexReads(Frame) \subseteq 0..(Len(java_content) - 1))
      /\ (Finished => i = Len(java_content) /\ pc' = "idle") ]_vars

\* A scan has finished inside a string whose last character is a backslash
\* with nothing after it.
C3_Witness ==
  /\ Finished
  /\ Mode = "StringLiteral"
  /\ Len(java_content) >= 2
  /\ LastOf(java_content) = BSLASH
  /\ i = Len(java_content)

\* C4: in a string literal every iteration copies what it consumes, the
\* mode stays StringLiteral or returns to Code, and it returns to Code
\* exactly at a double quote that is not the second character of an
\* escape pair; no comment mode is entered.
C4_StringCopied ==
  [][ (Looping /\ Mode = "StringLiteral") =>
        /\ Join(result') = Output \o Consumed(i, i')
        /\ Mode' \in {"StringLiteral", "Code"}
        /\ ~in_single_line_comment' /\ ~in_multi_line_comment'
        /\ (Mode' = "Code" <=> java_content[i + 1] = QUOTE) ]_vars

\* A scan from Code mode of a closed string holding // or /* or */ has
\* finished with the input as its output.
C4_Witness ==
  /\ Finished
  /\ entry = "Code"
  /\ Len(java_content) >= 4
  /\ Head(java_content) = QUOTE
  /\ LastOf(java_content) = QUOTE
  /\ \/ Contains(<<SLASH, SLASH>>, java_content)
     \/ Contains(<<SLASH, STAR>>, java_content)
     \/ Contains(<<STAR, SLASH>>, java_content)
  /\ ~Contains(<<QUOTE>>, SubSeq(java_content, 2, Len(java_content) - 1))
  /\ Output = java_content
  /\ Mode = "Code"

\* C5: in a literal or text block, a backslash with a following character
\* copies both, advances by 2 and leaves the mode and delimiter unchanged.
C5_EscapePair ==
  [][ (/\ Looping
       /\ Mode \in Literal
       /\ java_content[i + 1] = BSLASH
       /\ i + 1 < Len(java_content)) =>
        /\ i' = i + 2
        /\ Join(result') = Output \o <<BSLASH, java_content[i + 2]>>
        /\ Mode' = Mode
        /\ string_delimiter' = string_delimiter ]_vars

\* The scan has just passed an escaped double quote inside a string opened
\* in this call and the string is still open.
C5_Witness ==
  /\ pc = "loop"
  /\ entry = "Code"
  /\ java_content = <<QUOTE, BSLASH, QUOTE>>
  /\ i = 3
  /\ Mode = "StringLiteral"
  /\ Output = java_content

\* C6: entering LineComment from Code consumes the two slashes and emits
\* nothing; in LineComment a newline is copied and returns to Code, any
\* other character is dropped and the mode stays LineComment.
C6_LineComment ==
  [][ /\ (Looping /\ Mode = "Code" /\ Mode' = "LineComment") =>
            /\ Consumed(i, i') = <<SLASH, SLASH>>
            /\ result' = result
      /\ (Looping /\ Mode = "LineComment") =>
            /\ i' = i + 1
            /\ IF java_content[i + 1] = NL
               THEN Join(result') = Output \o <<NL>> /\ Mode' = "Code"
               ELSE result' = result /\ Mode' = "LineComment" ]_vars

\* A scan from Code mode of an input with one // comment closed by the
\* final newline has finished: the output ends with that newline and holds
\* none of the comment.
C6_Witness ==
  /\ Finished
  /\ entry = "Code"
  /\ Mode = "Code"
  /\ Len(java_content) = 5
  /\ SubSeq(java_content, 2, 3) = <<SLASH, SLASH>>
  /\ java_content[1] = SP
  /\ java_content[5] = NL
  /\ Output = <<SP, NL>>

\* C7: /* in Code mode enters BlockComment, consuming both characters and
\* emitting nothing; in BlockComment */ consumes both, emits nothing and
\* returns to Code; anything else is consumed one character at a time and
\* only a newline is emitted.
C7_BlockComment ==
  [][ /\ (/\ Looping
          /\ Mode = "Code"
          /\ java_content[i + 1] = SLASH
          /\ i + 1 < Len(java_content)
          /\ java_content[i + 2] = STAR) =>
            /\ Mode' = "BlockComment"
            /\ i' = i + 2
            /\ result' = result
      /\ (Looping /\ Mode = "BlockComment") =>
            IF /\ java_content[i + 1] = STAR
               /\ i + 1 < Len(java_content)
               /\ java_content[i + 2] = SLASH
            THEN Mode' = "Code" /\ i' = i + 2 /\ result' = result
            ELSE /\ Mode' = "BlockComment"
                 /\ i' = i + 1
                 /\ Join(result') =
                      Output \o (IF java_content[i + 1] = NL THEN <<NL>> ELSE <<>>)
    ]_vars

\* A scan from Code mode of one closed block comment with a newline in
\* it has finished: only the newlines are left.
C7_Witness ==
  /\ Finished
  /\ entry = "Code"
  /\ Mode = "Code"
  /\ Len(java_content) = 5
  /\ SubSeq(java_content, 1, 2) = <<SLASH, STAR>>
  /\ SubSeq(java_content, 4, 5) = <<STAR, SLASH>>
  /\ java_content[3] = NL
  /\ Output = <<NL>>

\* C8: a text block opens only at three quotes followed by white space and
\* the three quotes are copied; in a text block every iteration copies
\* what it consumes, the mode stays TextBlock or returns to Code, and it
\* returns to Code exactly at three consecutive quotes (none of them the
\* second character of an escape pair), which are copied as three quotes.
C8_TextBlockCopied ==
  [][ /\ (Looping /\ Mode = "Code" /\ Mode' = "TextBlock") =>
            /\ Consumed(i, i') = TQ
            /\ IsSpace(java_content[i + 4])
            /\ Join(result') = Output \o TQ
      /\ (Looping /\ Mode = "TextBlock") =>
            /\ Join(result') = Output \o Consumed(i, i')
            /\ Mode' \in {"TextBlock", "Code"}
            /\ ~in_single_line_comment' /\ ~in_multi_line_comment'
            /\ (Mode' = "Code" <=>
                  /\ i + 2 < Len(java_content)
                  /\ SubSeq(java_content, i + 1, i + 3) = TQ)
            /\ (Mode' = "Code" => i' = i + 3) ]_vars

\* A scan from Code mode of a closed text block holding // or /* or */ has
\* finished with the input as its output.
C8_Witness ==
  /\ Finished
  /\ entry = "Code"
  /\ Len(java_content) = 9
  /\ SubSeq(java_content, 1, 4) = TQ \o <<SP>>
  /\ SubSeq(java_content, 7, 9) = TQ
  /\ SubSeq(java_content, 5, 6) \in
       { <<SLASH, SLASH>>, <<SLASH, STAR>>, <<STAR, SLASH>> }
  /\ Output = java_content
  /\ Mode = "Code"
  /\ ~comment_seen

\* C9: a single quote in Code mode opens a character literal; in it every
\* iteration copies what it consumes, the mode stays CharLiteral or
\* returns to Code, and it returns to Code exactly at a single quote that
\* is not the second character of an escape pair.
C9_CharCopied ==
  [][ /\ (Looping /\ Mode = "Code" /\ java_content[i + 1] = APOS) =>
            /\ Mode' = "CharLiteral"
            /\ i' = i + 1
            /\ Join(result') = Output \o <<APOS>>
      /\ (Looping /\ Mode = "CharLiteral") =>
            /\ Join(result') = Output \o Consumed(i, i')
            /\ Mode' \in {"CharLiteral", "Code"}
            /\ ~in_string'
            /\ ~in_single_line_comment' /\ ~in_multi_line_comment'
            /\ (Mode' = "Code" <=> java_content[i + 1] = APOS) ]_vars

\* A scan from Code mode of a closed character literal holding /* or a
\* double quote has finished with the input as its output.
C9_Witness ==
  /\ Finished
  /\ entry = "Code"
  /\ Len(java_content) >= 3
  /\ Head(java_content) = APOS
  /\ LastOf(java_content) = APOS
  /\ ~Contains(<<APOS>>, SubSeq(java_content, 2, Len(java_content) - 1))
  /\ \/ Contains(<<SLASH, STAR>>, java_content)
     \/ Contains(<<QUOTE>>, java_content)
  /\ Output = java_content
  /\ Mode = "Code"

\* C10: a scan from Code mode that never enters a comment mode returns its
\* input, and scanning that output again from the reset state returns it
\* again.
C10_CleanInputUnchanged ==
  (Finished /\ entry = "Code" /\ ~comment_seen) =>
    /\ Output = java_content
    /\ remove_comments(ResetFrame(Output)) = Output

\* A scan from Code mode of an input holding // has finished without
\* having entered a comment mode.
C10_Witness ==
  /\ Finished
  /\ entry = "Code"
  /\ ~comment_seen
  /\ Contains(<<SLASH, SLASH>>, java_content)
  /\ Output = java_content

\* Does one of the URL schemes occur in str, compared in lower case?
HasScheme(str) ==
  \E indicator \in url_indicators : Contains(indicator, LowerStr(str))

\* str[-n:] of a string
LastChars(str, n) ==
  IF Len(str) >= n THEN SubSeq(str, Len(str) - n + 1, Len(str)) ELSE str

\* Is a // next in the input?
AtSlashSlash ==
  /\ Looping
  /\ java_content[i + 1] = SLASH
  /\ i + 1 < Len(java_content)
  /\ java_content[i + 2] = SLASH

\* Is sub a subsequence of str (str with some characters deleted)?
RECURSIVE IsSubseq(_, _)
IsSubseq(sub, str) ==
  IF sub = <<>> THEN TRUE
  ELSE IF str = <<>> THEN FALSE
  ELSE IF Head(sub) = Head(str) THEN IsSubseq(Tail(sub), Tail(str))
  ELSE IsSubseq(sub, Tail(str))

\* C11: in a scan from the reset state, a // met in Code mode right after
\* the closing quote of a string literal starts a line comment, whatever
\* the string held.
C11_CommentAfterString ==
  [][ (/\ AtSlashSlash
       /\ entry = "Code"
       /\ Mode = "Code"
       /\ i >= 2
       /\ java_content[1] = QUOTE
       /\ java_content[i] = QUOTE
       /\ Count(QUOTE, Consumed(0, i)) = 2
       /\ Output = Consumed(0, i)) =>
        Mode' = "LineComment" /\ result' = result /\ i' = i + 2 ]_vars

\* C12: at every point of a scan the output is a subsequence of the
\* consumed input, so it is no longer than it.
C12_OutputIsSubsequence ==
  pc = "loop" =>
    /\ IsSubseq(Output, Consumed(0, i))
    /\ Len(Output) <= i

\* A scan has finished whose output is a proper, non-empty part of its
\* input: a comment was removed and something was kept.
C12_Witness ==
  /\ Finished
  /\ comment_seen
  /\ Output # <<>>
  /\ Len(Output) < Len(java_content)
  /\ IsSubseq(Output, java_content)

C14_TextBlockAtEnd ==
  [][ (/\ Looping
       /\ Mode = "Code"
       /\ i + 3 = Len(java_content)
       /\ Consumed(i, i + 3) = TQ) =>
        /\ Mode' = "TextBlock"
        /\ i' = i + 3
        /\ Join(result') = Output \o TQ ]_vars

\* C14 as amended: three quotes that end the input do not start a text
\* block; the first opens a string literal and is copied alone, and a scan
\* from the reset state of just these three quotes ends in StringLiteral
\* mode with the three quotes as its output.
C14_StringAtEnd ==
  [][ /\ (/\ Looping
          /\ Mode = "Code"
          /\ i + 3 = Len(java_content)
          /\ Consumed(i, i + 3) = TQ) =>
            /\ Mode' = "StringLiteral"
            /\ i' = i + 1
            /\ Join(result') = Output \o <<QUOTE>>
      /\ (Finished /\ entry = "Code" /\ java_content \in {TQ, <<SP>> \o TQ}) =>
            /\ Mode = "StringLiteral"
            /\ Output = java_content ]_vars

\* A scan from the reset state of an input ending in three quotes met in
\* Code mode has finished in StringLiteral mode.
C14_Witness ==
  /\ Finished
  /\ entry = "Code"
  /\ java_content = <<SP>> \o TQ
  /\ Mode = "StringLiteral"
  /\ string_delimiter = QUOTE
  /\ Output = java_content

\* The number of mode flags that are set.
FlagsSet ==
  Cardinality({ k \in 1..5 :
    <<in_string, in_char, in_single_line_comment,
      in_multi_line_comment, in_text_block>>[k] })

C18_CarriageReturnsPreserved ==
  pc = "loop" => Count(CR, Output) = Count(CR, Consumed(0, i))

\* C18 as amended: every newline is preserved; a carriage return is an
\* ordinary character, copied outside comments and dropped inside a line or
\* block comment, which it does not end.
C18_CarriageReturnOrdinary ==
  [][ /\ (pc = "loop" => Count(NL, Output) = Count(NL, Consumed(0, i)))
      /\ (Looping /\ java_content[i + 1] = CR) =>
            /\ i' = i + 1
            /\ Mode' = Mode
            /\ IF Mode \in {"LineComment", "BlockComment"}
               THEN result' = result
               ELSE Join(result') = Output \o <<CR>> ]_vars

\* A scan from the reset state of a line comment closed by CR LF has
\* finished: only the newline is left.
C18_Witness ==
  /\ Finished
  /\ entry = "Code"
  /\ java_content = <<SLASH, SLASH, SP, CR, NL>>
  /\ Output = <<NL>>
  /\ Mode = "Code"

\* Position (0-based) of the first */ of str at or after position k, or
\* Len(str) if there is none.
RECURSIVE FirstClose(_, _)
FirstClose(str, k) ==
  IF k + 1 >= Len(str) THEN Len(str)
  ELSE IF str[k + 1] = STAR /\ str[k + 2] = SLASH THEN k
  ELSE FirstClose(str, k + 1)

\* The newlines of str, in order.
NewlinesOf(str) == [k \in 1..Count(NL, str) |-> NL]

InProcessFile == pf \in {"read", "reset", "scan", "backup", "write"}

\* C15: the cleaned content process_file computes and writes for a file is
\* what a freshly constructed instance makes of that file's content, also
\* when the fields were left set by an earlier file or an earlier file
\* failed.
C15_FilesIndependent ==
  /\ pf \in {"backup", "write", "ok"} =>
       cleaned_content = remove_comments(ResetFrame(original_content))
  /\ pf = "ok" =>
       Target = WriteText(remove_comments(ResetFrame(original_content)),
                          linesep)

\* A file holding a comment was processed successfully by an instance whose
\* fields an earlier, failed file had left set.
C15_Witness ==
  /\ pf = "ok"
  /\ stale
  /\ error_count = 1
  /\ cleaned_content # original_content
  /\ Target = WriteText(cleaned_content, linesep)

\* C17: the loop takes the discovered files one by one; a failed
\* process_file is counted as an error and the loop goes on; at the end
\* success_count + error_count is the number of discovered files.
C17_EveryFileCounted ==
  [][ /\ idx <= java_files
      /\ (pd = "loop" /\ pf = "none") => success_count + error_count = idx
      /\ (pd = "loop" /\ pf # "none") => success_count + error_count = idx - 1
      /\ pd = "done" => success_count + error_count = java_files
      /\ (pf = "none" /\ pf' # "none") => idx' = idx + 1
      /\ pf = "err" =>
           /\ pd' = "loop"
           /\ pf' = "none"
           /\ idx' = idx
           /\ error_count' = error_count + 1
           /\ success_count' = success_count ]_vars

\* The first file failed and the loop went on: the second file has been
\* processed successfully.
C17_Witness ==
  /\ pd = "loop"
  /\ pf = "ok"
  /\ idx = 2
  /\ error_count = 1
  /\ success_count = 0

\* C20: inside process_file the output file changes only in the write step,
\* and with backup=True only when the backup file holds the content read;
\* a backup that was not written completely ends the call with an error.
C20_BackupBeforeWrite ==
  [][ /\ (InProcessFile /\ Target' # Target) =>
           /\ pf = "write"
           /\ backup => disk.backup = WriteText(original_content, linesep)
      /\ (pf = "backup" /\ pf' = "write") =>
           disk'.backup = WriteText(original_content, linesep)
      /\ (pf = "backup" /\ pf' # "write") =>
           /\ pf' = "err"
           /\ Target' = Target ]_vars

\* A file was rewritten in place with a backup: the backup holds the
\* content read and the file holds the cleaned content, which differs.
C20_Witness ==
  /\ pf = "ok"
  /\ backup
  /\ in_place
  /\ cleaned_content # original_content
  /\ disk.backup = WriteText(original_content, linesep)
  /\ disk.orig = WriteText(cleaned_content, linesep)

====
